---- MODULE Spec2Model ----
(***************************************************************************)
(* Model of packages/common/src/Utils.ts: waitForSuccess (the race with a  *)
(* grace period) and adjustGasCostParameterUp (the fee negotiation).       *)
(*                                                                         *)
(* waitForSuccess runs on the JavaScript event loop.  The model keeps the  *)
(* promise chain of every probe                                            *)
(*     promises[i].then(f).catch(g).finally(h)                             *)
(* as three jobs of a FIFO microtask queue, the grace timer as a macrotask *)
(* that can only run when the microtask queue is empty, and the settling   *)
(* of a probe as a step of the environment.                                *)
(***************************************************************************)
EXTENDS Integers, Sequences, FiniteSets, TLC

\* ------------------------------------------------------------------ bounds
MaxProbes == 3
MaxFee == 150
MaxDigit == 2
MaxPathLen == 4

\* ------------------------------------------------------------ value domains
Keys == 1..MaxProbes
NoError == 0
NoThrow == "none"

\* what promises[i] yields when it succeeds, and what it throws when it fails
ValueOf(i) == 10 + i
ErrorOf(i) == 20 + i
Values == {ValueOf(i) : i \in 1..MaxProbes}
Errs == {ErrorOf(i) : i \in 1..MaxProbes}

\* the key lists the model calls waitForSuccess with: probe i is given its
\* own key KeyOf(i) or repeats the key of the first probe
KeyOf(i) == MaxProbes + 1 - i
KeyLists(m) == {ks \in [1..m -> Keys] : \A i \in 1..m : ks[i] \in {KeyOf(i), KeyOf(1)}}

InvalidLengthError == "Invalid errorKeys length"
DuplicateKeysError == "waitForSuccess: duplicate relay URL keys, aborting"

\* JavaScript numbers are integers plus two special values, encoded as
\* integers outside the range the model computes with, so that Infinity
\* compares above every finite number as it does in JavaScript
Infinity == 2147483647
NaN == -2147483647

VARIABLES
  pstate,      \* pstate[i]: state of promises[i]: "pending", "fulfilled", "rejected"
  pvalue,      \* pvalue[i]: the value or the error promises[i] settled with
  errorKeys,   \* the errorKeys argument
  pc,          \* position of the call: "init", "running", "threw", "fees", "feesDone"
  ret,         \* the WaitForSuccessResults object: [results, errors]
  inner,       \* state of the promise built by `new Promise((resolve) => ...)`
  outer,       \* state of the promise returned by the async function
  outerErr,    \* the error the call rejected with
  attached,    \* probes the race has attached its handlers to
  microtasks,  \* FIFO queue of promise reaction jobs
  timers,      \* grace timers armed and not yet fired
  armCount,    \* history: number of setTimeout calls
  firedCount,  \* history: number of timer callbacks run
  succOrder,   \* history: probes in the order their success handler ran
  settleOrder, \* history: attached probes in the order they were fulfilled
  atResolve,   \* history: copy of ret taken when resolve(ret) was called
  clientInput, pingResponseMinimum, \* arguments of adjustGasCostParameterUp
  adjusted,    \* its return value
  feesIn, relayInfo, \* arguments of adjustRelayRequestForPingResponse
  selection,   \* its return value
  blob, path,  \* arguments of getJsonElement
  element,     \* its outcome: a node, null or a thrown error
  oracleUrl,   \* the oracle endpoint of the GasPriceFetcher ("" when unset)
  response,    \* what the GET to the oracle produced
  fallback,    \* what the fallback fee source produced
  gasPrice,    \* outcome of getGasPrice: a value or a raised error
  errorlog,    \* entries written to the logger
  networkCalls, \* number of GETs issued
  fallbackCalls \* number of calls of the fallback fee source

vars == <<pstate, pvalue, errorKeys, pc, ret, inner, outer, outerErr, attached,
          microtasks, timers, armCount, firedCount, succOrder, settleOrder,
          atResolve, clientInput, pingResponseMinimum, adjusted,
          feesIn, relayInfo, selection, blob, path, element,
          oracleUrl, response, fallback, gasPrice, errorlog, networkCalls,
          fallbackCalls>>

raceVars == <<pstate, pvalue, errorKeys, ret, inner, outer, outerErr, attached,
              microtasks, timers, armCount, firedCount, succOrder, settleOrder,
              atResolve>>

feeVars == <<clientInput, pingResponseMinimum, adjusted>>

relayVars == <<feesIn, relayInfo, selection>>

jsonVars == <<blob, path, element>>

oracleVars == <<oracleUrl, response, fallback, gasPrice, errorlog, networkCalls,
                fallbackCalls>>

N == Len(pstate)

\* -------------------------------------------------- JSON trees and paths

\* a node of a parsed body: an object, an array or a string
Obj(fields) == [kind |-> "obj", v |-> fields]
Arr(items) == [kind |-> "arr", v |-> items]
Str(chars) == [kind |-> "str", v |-> chars]

Null == [kind |-> "null"]
InvalidPath(p) == [kind |-> "throw", message |-> "invalid path", path |-> p]

\* one segment of a path as written: what opens it ("." or "[", "" when
\* neither), whether the key is in double quotes, and the key
Seg(open, quoted, key) == [open |-> open, quoted |-> quoted, key |-> key]

\* the keys that are written as a non-negative integer, and the integer
IndexKeys == {"0", "1"}
IndexOfKey(key) == IF key = "0" THEN 0 ELSE 1

JsonIdle ==
  /\ blob = Null
  /\ path = <<>>
  /\ element = Null

NoResponse == [kind |-> "none"]
NoPrice == [kind |-> "none"]

OracleIdle ==
  /\ oracleUrl = ""
  /\ response = NoResponse
  /\ fallback = NoPrice
  /\ gasPrice = NoPrice
  /\ errorlog = <<>>
  /\ networkCalls = 0
  /\ fallbackCalls = 0

\* values of the variables of a call that is not being made
NoFees == [maxPriorityFeePerGas |-> <<0>>, maxFeePerGas |-> <<0>>]
NoRelayInfo ==
  [relayUrl |-> "", pingResponse |-> [minMaxPriorityFeePerGas |-> <<0>>, minMaxFeePerGas |-> <<0>>]]
NoSelection ==
  [relayInfo |-> NoRelayInfo, maxDeltaPercent |-> 0, updatedGasFees |-> NoFees]

\* ------------------------------------------------------- waitForSuccess

\* Array.prototype.indexOf: the first index holding k
IndexOf(keys, k) ==
  CHOOSE i \in 1..Len(keys) : keys[i] = k /\ \A j \in 1..(i - 1) : keys[j] # k

ValidateNoDuplicateCheck(n, keys) ==
  IF n # Len(keys) THEN InvalidLengthError ELSE "ok"

\* the two checks that precede the race; "ok" when neither throws
Validate(n, keys) ==
  IF n # Len(keys) THEN InvalidLengthError
  ELSE IF \E i \in 1..Len(keys) : IndexOf(keys, keys[i]) # i THEN DuplicateKeysError
  ELSE "ok"

EmptyRet == [results |-> <<>>, errors |-> [k \in Keys |-> NoError]]

\* Map.prototype.size
MapSize(errors) == Cardinality({k \in Keys : errors[k] # NoError})

PushFront(results, v) == <<v>> \o results

\* ret.results.push(result)
Push(results, v) == Append(results, v)

ShouldArmAlways(results) == Len(results) >= 1

ShouldArmSecond(results) == Len(results) = 2

\* if (ret.results.length === 1)
ShouldArm(results) == Len(results) = 1

ErrorsSetFirstKey(errors, keys, i, err) == [errors EXCEPT ![keys[1]] = err]

\* ret.errors.set(errorKeys[i], err)
ErrorsSet(errors, keys, i, err) == [errors EXCEPT ![keys[i]] = err]

AllSettledResultsOnly(r, n) == Len(r.results) = n

AllSettledOffByOne(r, n) == Len(r.results) + MapSize(r.errors) = n - 1

\* if (ret.results.length + ret.errors.size === promises.length)
AllSettled(r, n) == Len(r.results) + MapSize(r.errors) = n

Job(h, i) == [h |-> h, p |-> i]
AwaitJob == Job("await", 0)

RECURSIVE ReactionsOf(_, _)
\* the reaction jobs queued by attaching .then to promises[from..N] in array order
ReactionsOf(states, from) ==
  IF from > Len(states) THEN <<>>
  ELSE (IF states[from] # "pending" THEN <<Job("then", from)>> ELSE <<>>)
       \o ReactionsOf(states, from + 1)

Init ==
  /\ \E n \in 0..MaxProbes :
       /\ pstate \in [1..n -> {"pending", "fulfilled", "rejected"}]
       /\ pvalue \in [1..n -> Values \cup Errs \cup {NoError}]
       /\ \A i \in 1..n :
            /\ pstate[i] = "pending" => pvalue[i] = NoError
            /\ pstate[i] = "fulfilled" => pvalue[i] = ValueOf(i)
            /\ pstate[i] = "rejected" => pvalue[i] = ErrorOf(i)
  /\ \E m \in 0..MaxProbes : errorKeys \in KeyLists(m)
  /\ pc = "init"
  /\ ret = EmptyRet
  /\ inner = "none"
  /\ outer = "none"
  /\ outerErr = NoThrow
  /\ attached = {}
  /\ microtasks = <<>>
  /\ timers = 0
  /\ armCount = 0
  /\ firedCount = 0
  /\ succOrder = <<>>
  /\ settleOrder = <<>>
  /\ atResolve = EmptyRet
  /\ clientInput = 0
  /\ pingResponseMinimum = 0
  /\ adjusted = [newValue |-> 0, deltaPercent |-> 0]
  /\ feesIn = NoFees
  /\ relayInfo = NoRelayInfo
  /\ selection = NoSelection
  /\ JsonIdle
  /\ OracleIdle

\* the synchronous part of waitForSuccess: the two checks, then the executor
\* of the new Promise, which attaches the three handlers to every probe
Call ==
  /\ pc = "init"
  /\ IF Validate(N, errorKeys) # "ok"
     THEN /\ pc' = "threw"
          /\ outer' = "rejected"
          /\ outerErr' = Validate(N, errorKeys)
          /\ UNCHANGED <<inner, attached, microtasks, ret>>
     ELSE /\ pc' = "running"
          /\ outer' = "pending"
          /\ inner' = "pending"
          /\ ret' = EmptyRet
          /\ attached' = 1..N
          /\ microtasks' = ReactionsOf(pstate, 1)
          /\ UNCHANGED outerErr
  /\ UNCHANGED <<pstate, pvalue, errorKeys, timers, armCount, firedCount,
                 succOrder, settleOrder, atResolve, feeVars, relayVars, jsonVars, oracleVars>>

\* the environment fulfils promises[i]
Fulfil(i, v) ==
  /\ pc \in {"init", "running", "threw"}
  /\ pstate[i] = "pending"
  /\ pstate' = [pstate EXCEPT ![i] = "fulfilled"]
  /\ pvalue' = [pvalue EXCEPT ![i] = v]
  /\ IF i \in attached
     THEN /\ microtasks' = Append(microtasks, Job("then", i))
          /\ settleOrder' = Append(settleOrder, i)
     ELSE UNCHANGED <<microtasks, settleOrder>>
  /\ UNCHANGED <<errorKeys, pc, ret, inner, outer, outerErr, attached, timers,
                 armCount, firedCount, succOrder, atResolve, feeVars, relayVars, jsonVars, oracleVars>>

\* the environment rejects promises[i]
Reject(i, e) ==
  /\ pc \in {"init", "running", "threw"}
  /\ pstate[i] = "pending"
  /\ pstate' = [pstate EXCEPT ![i] = "rejected"]
  /\ pvalue' = [pvalue EXCEPT ![i] = e]
  /\ IF i \in attached
     THEN microtasks' = Append(microtasks, Job("then", i))
     ELSE UNCHANGED microtasks
  /\ UNCHANGED <<errorKeys, pc, ret, inner, outer, outerErr, attached, timers,
                 armCount, firedCount, succOrder, settleOrder, atResolve, feeVars, relayVars, jsonVars, oracleVars>>

\* .then(result => {...}): runs the callback when promises[i] was fulfilled,
\* passes the rejection on otherwise
ThenHandler ==
  /\ microtasks # <<>>
  /\ Head(microtasks).h = "then"
  /\ LET i == Head(microtasks).p IN
       /\ IF pstate[i] = "fulfilled"
          THEN /\ ret' = [ret EXCEPT !.results = Push(ret.results, pvalue[i])]
               /\ succOrder' = Append(succOrder, i)
               /\ IF ShouldArm(ret'.results)
                  THEN /\ timers' = timers + 1
                       /\ armCount' = armCount + 1
                  ELSE UNCHANGED <<timers, armCount>>
          ELSE UNCHANGED <<ret, succOrder, timers, armCount>>
       /\ microtasks' = Append(Tail(microtasks), Job("catch", i))
  /\ UNCHANGED <<pstate, pvalue, errorKeys, pc, inner, outer, outerErr, attached,
                 firedCount, settleOrder, atResolve, feeVars, relayVars, jsonVars, oracleVars>>

\* .catch(err => {...}): runs the callback when the rejection reached it
CatchHandler ==
  /\ microtasks # <<>>
  /\ Head(microtasks).h = "catch"
  /\ LET i == Head(microtasks).p IN
       /\ IF pstate[i] = "rejected"
          THEN ret' = [ret EXCEPT !.errors = ErrorsSet(ret.errors, errorKeys, i, pvalue[i])]
          ELSE UNCHANGED ret
       /\ microtasks' = Append(Tail(microtasks), Job("finally", i))
  /\ UNCHANGED <<pstate, pvalue, errorKeys, pc, inner, outer, outerErr, attached,
                 timers, armCount, firedCount, succOrder, settleOrder, atResolve,
                 feeVars, relayVars, jsonVars, oracleVars>>

\* complete(): resolve(ret); a second resolve of a settled promise is a no-op.
\* `return await` resumes the async function one microtask later.
Complete(rest) ==
  IF inner = "pending"
  THEN /\ inner' = "fulfilled"
       /\ atResolve' = ret
       /\ microtasks' = Append(rest, AwaitJob)
  ELSE /\ microtasks' = rest
       /\ UNCHANGED <<inner, atResolve>>

\* .finally(() => {...})
FinallyHandler ==
  /\ microtasks # <<>>
  /\ Head(microtasks).h = "finally"
  /\ IF AllSettled(ret, N)
     THEN Complete(Tail(microtasks))
     ELSE /\ microtasks' = Tail(microtasks)
          /\ UNCHANGED <<inner, atResolve>>
  /\ UNCHANGED <<pstate, pvalue, errorKeys, pc, ret, outer, outerErr, attached,
                 timers, armCount, firedCount, succOrder, settleOrder, feeVars, relayVars, jsonVars, oracleVars>>

\* setTimeout(complete, graceTime): a macrotask, run with no microtask pending
TimerFires ==
  /\ timers > 0
  /\ microtasks = <<>>
  /\ timers' = timers - 1
  /\ firedCount' = firedCount + 1
  /\ Complete(microtasks)
  /\ UNCHANGED <<pstate, pvalue, errorKeys, pc, ret, outer, outerErr, attached,
                 armCount, succOrder, settleOrder, feeVars, relayVars, jsonVars, oracleVars>>

\* `return await new Promise(...)`: the async function returns ret itself
AwaitResume ==
  /\ microtasks # <<>>
  /\ Head(microtasks) = AwaitJob
  /\ microtasks' = Tail(microtasks)
  /\ outer' = "fulfilled"
  /\ UNCHANGED <<pstate, pvalue, errorKeys, pc, ret, inner, outerErr, attached,
                 timers, armCount, firedCount, succOrder, settleOrder, atResolve,
                 feeVars, relayVars, jsonVars, oracleVars>>

\* ------------------------------------------------ adjustGasCostParameterUp

\* a / b on JavaScript numbers, kept as an exact fraction; b = 0 gives
\* Infinity (a > 0) or NaN (a = 0)
JsDivide(a, b) == [num |-> a, den |-> b]

MathFloor(q) ==
  IF q.den = 0 THEN (IF q.num = 0 THEN NaN ELSE Infinity)
  ELSE q.num \div q.den

\* Math.round: the nearest integer, a tie going up: floor(q + 1/2)
MathRound(q) ==
  IF q.den = 0 THEN (IF q.num = 0 THEN NaN ELSE Infinity)
  ELSE (2 * q.num + q.den) \div (2 * q.den)

adjustGasCostParameterDown(client, minimum) ==
  IF client <= minimum
  THEN [newValue |-> client, deltaPercent |-> 0]
  ELSE [newValue |-> minimum,
        deltaPercent |-> MathRound(JsDivide((minimum - client) * 100, client))]

adjustGasCostParameterUp(client, minimum) ==
  IF client >= minimum
  THEN [newValue |-> client, deltaPercent |-> 0]
  ELSE [newValue |-> minimum,
        deltaPercent |-> MathRound(JsDivide((minimum - client) * 100, client))]

FeesInit ==
  /\ clientInput \in 0..MaxFee
  /\ pingResponseMinimum \in 0..MaxFee
  /\ adjusted = [newValue |-> 0, deltaPercent |-> 0]
  /\ feesIn = NoFees
  /\ relayInfo = NoRelayInfo
  /\ selection = NoSelection
  /\ JsonIdle
  /\ OracleIdle
  /\ pc = "fees"
  /\ pstate = <<>>
  /\ pvalue = <<>>
  /\ errorKeys = <<>>
  /\ ret = EmptyRet
  /\ inner = "none"
  /\ outer = "none"
  /\ outerErr = NoThrow
  /\ attached = {}
  /\ microtasks = <<>>
  /\ timers = 0
  /\ armCount = 0
  /\ firedCount = 0
  /\ succOrder = <<>>
  /\ settleOrder = <<>>
  /\ atResolve = EmptyRet

\* one call adjustGasCostParameterUp(clientInput, pingResponseMinimum)
Adjust ==
  /\ pc = "fees"
  /\ adjusted' = adjustGasCostParameterUp(clientInput, pingResponseMinimum)
  /\ pc' = "feesDone"
  /\ UNCHANGED <<clientInput, pingResponseMinimum, raceVars, relayVars, jsonVars,
                 oracleVars>>

FeesNext == Adjust

SpecFees == FeesInit /\ [][FeesNext]_vars

\* ------------------------------------- adjustRelayRequestForPingResponse

\* a fee is a string "0x" followed by hex digits, kept as the sequence of
\* its digits; the model uses strings of one or two digits 0..MaxDigit
HexStrings == [1..1 -> 0..MaxDigit] \cup [1..2 -> 0..MaxDigit]

RECURSIVE parseInt(_)
\* parseInt of a "0x" string: the number its hex digits denote
parseInt(digits) ==
  IF digits = <<>> THEN 0
  ELSE 16 * parseInt(SubSeq(digits, 1, Len(digits) - 1)) + digits[Len(digits)]

RECURSIVE toHex(_)
\* toHex of a number: "0x" and its hex digits without leading zeros
toHex(n) ==
  IF n < 16 THEN <<n>> ELSE Append(toHex(n \div 16), n % 16)

MathMin(a, b) == IF a <= b THEN a ELSE b

\* Math.max of two numbers
MathMax(a, b) ==
  IF a = NaN \/ b = NaN THEN NaN
  ELSE IF a >= b THEN a ELSE b

adjustRelayRequestForPingResponse(fees, info) ==
  LET maxPriorityFeePerGas ==
        adjustGasCostParameterUp(parseInt(fees.maxPriorityFeePerGas),
                                 parseInt(info.pingResponse.minMaxPriorityFeePerGas))
      maxFeePerGas ==
        adjustGasCostParameterUp(parseInt(fees.maxFeePerGas),
                                 parseInt(info.pingResponse.minMaxFeePerGas))
      updatedGasFees ==
        [maxPriorityFeePerGas |-> toHex(maxPriorityFeePerGas.newValue),
         maxFeePerGas |-> toHex(maxFeePerGas.newValue)]
      maxDeltaPercent == MathMax(maxFeePerGas.deltaPercent, maxPriorityFeePerGas.deltaPercent)
  IN [relayInfo |-> info,
      maxDeltaPercent |-> maxDeltaPercent,
      updatedGasFees |-> updatedGasFees]

RelayUrls == {"https://relay.a", "https://relay.b"}

RelayInit ==
  /\ feesIn \in [maxPriorityFeePerGas : HexStrings, maxFeePerGas : HexStrings]
  /\ relayInfo \in [relayUrl : RelayUrls,
                     pingResponse : [minMaxPriorityFeePerGas : HexStrings,
                                     minMaxFeePerGas : HexStrings]]
  /\ selection = NoSelection
  /\ JsonIdle
  /\ OracleIdle
  /\ pc = "relay"
  /\ clientInput = 0
  /\ pingResponseMinimum = 0
  /\ adjusted = [newValue |-> 0, deltaPercent |-> 0]
  /\ pstate = <<>>
  /\ pvalue = <<>>
  /\ errorKeys = <<>>
  /\ ret = EmptyRet
  /\ inner = "none"
  /\ outer = "none"
  /\ outerErr = NoThrow
  /\ attached = {}
  /\ microtasks = <<>>
  /\ timers = 0
  /\ armCount = 0
  /\ firedCount = 0
  /\ succOrder = <<>>
  /\ settleOrder = <<>>
  /\ atResolve = EmptyRet

\* one call adjustRelayRequestForPingResponse(feesIn, relayInfo)
AdjustRelayRequest ==
  /\ pc = "relay"
  /\ selection' = adjustRelayRequestForPingResponse(feesIn, relayInfo)
  /\ pc' = "relayDone"
  /\ UNCHANGED <<feesIn, relayInfo, raceVars, feeVars, jsonVars, oracleVars>>

RelayNext == AdjustRelayRequest

SpecRelay == RelayInit /\ [][RelayNext]_vars

\* ------------------------------------------------------- getJsonElement

\* { abc: [ { def: { ghi: 'hello' } } ] }
TestBlob ==
  Obj([abc |-> Arr(<<Obj([def |-> Obj([ghi |-> Str(<<"h", "e", "l", "l", "o">>)])])>>)])

\* { abc: 'hello', def: [ '39', '7' ] }
FlatBlob ==
  Obj([abc |-> Str(<<"h", "e", "l", "l", "o">>), def |-> Arr(<<Str(<<"3", "9">>), Str(<<"7">>)>>)])

Blobs == {TestBlob, FlatBlob}

\* .abc .def .ghi .missing ["def"] ["invalid"] [0] [1] [noquote] abc
Segments ==
  {Seg(".", FALSE, "abc"), Seg(".", FALSE, "def"), Seg(".", FALSE, "ghi"),
   Seg(".", FALSE, "missing"), Seg("[", TRUE, "def"), Seg("[", TRUE, "invalid"),
   Seg("[", FALSE, "0"), Seg("[", FALSE, "1"), Seg("[", FALSE, "noquote"),
   Seg("", FALSE, "abc")}

\* a path is a sequence of one or more segments
Paths == UNION {[1..n -> Segments] : n \in 1..MaxPathLen}

MatchesAnything(seg) == TRUE

\* the grammar of a segment: .identifier, ["key"] or [N]
MatchesGrammar(seg) ==
  \/ seg.open = "." /\ ~seg.quoted
  \/ seg.open = "[" /\ seg.quoted
  \/ seg.open = "[" /\ ~seg.quoted /\ seg.key \in IndexKeys

\* whether the node holds the key or index the segment names
HasChild(node, seg) ==
  \/ node.kind = "obj" /\ seg.key \in DOMAIN node.v
  \/ node.kind = "arr" /\ seg.key \in IndexKeys
                       /\ IndexOfKey(seg.key) + 1 \in DOMAIN node.v

Child(node, seg) ==
  IF node.kind = "obj" THEN node.v[seg.key] ELSE node.v[IndexOfKey(seg.key) + 1]

RECURSIVE Descend(_, _, _)
\* the descent from node along segments k.. of path p, one segment a step:
\* a segment outside the grammar throws, a missing key or index gives null
Descend(node, p, k) ==
  IF ~MatchesGrammar(p[k]) THEN InvalidPath(p)
  ELSE IF ~HasChild(node, p[k]) THEN Null
  ELSE IF k = Len(p) THEN Child(node, p[k])
  ELSE Descend(Child(node, p[k]), p, k + 1)

getJsonElement(b, p) == Descend(b, p, 1)

JsonInit ==
  /\ blob \in Blobs
  /\ path \in Paths
  /\ element = Null
  /\ OracleIdle
  /\ pc = "json"
  /\ feesIn = NoFees
  /\ relayInfo = NoRelayInfo
  /\ selection = NoSelection
  /\ clientInput = 0
  /\ pingResponseMinimum = 0
  /\ adjusted = [newValue |-> 0, deltaPercent |-> 0]
  /\ pstate = <<>>
  /\ pvalue = <<>>
  /\ errorKeys = <<>>
  /\ ret = EmptyRet
  /\ inner = "none"
  /\ outer = "none"
  /\ outerErr = NoThrow
  /\ attached = {}
  /\ microtasks = <<>>
  /\ timers = 0
  /\ armCount = 0
  /\ firedCount = 0
  /\ succOrder = <<>>
  /\ settleOrder = <<>>
  /\ atResolve = EmptyRet

\* one call getJsonElement(blob, path)
GetJsonElement ==
  /\ pc = "json"
  /\ element' = getJsonElement(blob, path)
  /\ pc' = "jsonDone"
  /\ UNCHANGED <<blob, path, raceVars, feeVars, relayVars, oracleVars>>

JsonNext == GetJsonElement

SpecJson == JsonInit /\ [][JsonNext]_vars

\* ----------------------------------------------------------- getGasPrice

\* the fixed scale factor from the oracle's unit to the base unit
ScaleFactor == 1000000000

OracleUrl == "http://localhost/geturl"

\* the shape of the etherscan answer of the tests, with one-digit prices
OracleBlob ==
  Obj([status |-> Str(<<"1">>),
       message |-> Str(<<"O", "K">>),
       result |-> Obj([LastBlock |-> Str(<<"0">>),
                       SafeGasPrice |-> Str(<<"1">>),
                       ProposeGasPrice |-> Str(<<"2">>)])])

\* .result .ProposeGasPrice ["SafeGasPrice"] .LastBlock .message .wrongpath result
OracleSegments ==
  {Seg(".", FALSE, "result"), Seg(".", FALSE, "ProposeGasPrice"),
   Seg("[", TRUE, "SafeGasPrice"), Seg(".", FALSE, "LastBlock"),
   Seg(".", FALSE, "message"), Seg(".", FALSE, "wrongpath"),
   Seg("", FALSE, "result")}

OraclePaths == [1..1 -> OracleSegments] \cup [1..2 -> OracleSegments]

\* what the GET can produce: a connection failure, a body that is not
\* structured data, or a body that parses to a tree
Responses ==
  {[kind |-> "failed", cause |-> "ECONNREFUSED"],
   [kind |-> "text"],
   [kind |-> "json", data |-> OracleBlob]}

\* what the fallback fee source can produce: a fee value or a failure
Price(n) == [kind |-> "value", n |-> n]
Raised(e) == [kind |-> "raised", error |-> e]
FallbackResults == {Price(3), Price(7), Raised("fallback failed")}

LogError(cause) == [severity |-> "error", cause |-> cause]

Digits == {"0", "1", "2", "3", "4", "5", "6", "7", "8", "9"}

DigitValue(c) ==
  CASE c = "0" -> 0 [] c = "1" -> 1 [] c = "2" -> 2 [] c = "3" -> 3 [] c = "4" -> 4
    [] c = "5" -> 5 [] c = "6" -> 6 [] c = "7" -> 7 [] c = "8" -> 8 [] c = "9" -> 9

RECURSIVE NumberOf(_)
\* the number a string of decimal digits denotes
NumberOf(chars) ==
  IF chars = <<>> THEN 0
  ELSE 10 * NumberOf(SubSeq(chars, 1, Len(chars) - 1)) + DigitValue(chars[Len(chars)])

ScaleNone(n) == n

\* conversion of the oracle's value to the base unit
Scale(n) == n * ScaleFactor

\* the extracted value is a well-formed positive number
IsPositiveNumber(e) ==
  /\ e.kind = "str"
  /\ e.v # <<>>
  /\ \A k \in 1..Len(e.v) : e.v[k] \in Digits
  /\ NumberOf(e.v) > 0

OracleInit ==
  /\ oracleUrl \in {"", OracleUrl}
  /\ path \in OraclePaths
  /\ blob = Null
  /\ element = Null
  /\ response = NoResponse
  /\ fallback = NoPrice
  /\ gasPrice = NoPrice
  /\ errorlog = <<>>
  /\ networkCalls = 0
  /\ fallbackCalls = 0
  /\ pc = "gas"
  /\ feesIn = NoFees
  /\ relayInfo = NoRelayInfo
  /\ selection = NoSelection
  /\ clientInput = 0
  /\ pingResponseMinimum = 0
  /\ adjusted = [newValue |-> 0, deltaPercent |-> 0]
  /\ pstate = <<>>
  /\ pvalue = <<>>
  /\ errorKeys = <<>>
  /\ ret = EmptyRet
  /\ inner = "none"
  /\ outer = "none"
  /\ outerErr = NoThrow
  /\ attached = {}
  /\ microtasks = <<>>
  /\ timers = 0
  /\ armCount = 0
  /\ firedCount = 0
  /\ succOrder = <<>>
  /\ settleOrder = <<>>
  /\ atResolve = EmptyRet

\* getGasPrice up to its first wait: with no endpoint it goes straight to the
\* fallback source, else it issues the GET
GasStart ==
  /\ pc = "gas"
  /\ IF oracleUrl = ""
     THEN /\ pc' = "fallback"
          /\ fallbackCalls' = fallbackCalls + 1
          /\ UNCHANGED networkCalls
     ELSE /\ pc' = "get"
          /\ networkCalls' = networkCalls + 1
          /\ UNCHANGED fallbackCalls
  /\ UNCHANGED <<oracleUrl, response, fallback, gasPrice, errorlog, jsonVars,
                 raceVars, feeVars, relayVars>>

\* the GET completes: parse the body, extract the value at the path, return
\* it scaled when it is a positive number; a malformed path is raised; any
\* data error is logged and the fallback source is called
GetResponds(r) ==
  /\ pc = "get"
  /\ response' = r
  /\ IF r.kind = "failed"
     THEN /\ errorlog' = Append(errorlog, LogError(r.cause))
          /\ pc' = "fallback"
          /\ fallbackCalls' = fallbackCalls + 1
          /\ UNCHANGED <<blob, element, gasPrice>>
     ELSE IF r.kind = "text"
     THEN /\ errorlog' = Append(errorlog, LogError("not a number"))
          /\ pc' = "fallback"
          /\ fallbackCalls' = fallbackCalls + 1
          /\ UNCHANGED <<blob, element, gasPrice>>
     ELSE /\ blob' = r.data
          /\ element' = getJsonElement(r.data, path)
          /\ IF element'.kind = "throw"
             THEN /\ gasPrice' = Raised(element'.message)
                  /\ pc' = "gasDone"
                  /\ UNCHANGED <<errorlog, fallbackCalls>>
             ELSE IF IsPositiveNumber(element')
             THEN /\ gasPrice' = Price(Scale(NumberOf(element'.v)))
                  /\ pc' = "gasDone"
                  /\ UNCHANGED <<errorlog, fallbackCalls>>
             ELSE /\ errorlog' = Append(errorlog, LogError("not a number"))
                  /\ pc' = "fallback"
                  /\ fallbackCalls' = fallbackCalls + 1
                  /\ UNCHANGED gasPrice
  /\ UNCHANGED <<oracleUrl, path, fallback, networkCalls, raceVars, feeVars,
                 relayVars>>

\* the fallback source answers and getGasPrice returns what it produced
FallbackResponds(f) ==
  /\ pc = "fallback"
  /\ fallback' = f
  /\ gasPrice' = f
  /\ pc' = "gasDone"
  /\ UNCHANGED <<oracleUrl, response, errorlog, networkCalls, fallbackCalls,
                 jsonVars, raceVars, feeVars, relayVars>>

OracleNext ==
  \/ GasStart
  \/ \E r \in Responses : GetResponds(r)
  \/ \E f \in FallbackResults : FallbackResponds(f)

SpecOracle == OracleInit /\ [][OracleNext]_vars

Next ==
  \/ Call
  \/ \E i \in 1..N : Fulfil(i, ValueOf(i))
  \/ \E i \in 1..N : Reject(i, ErrorOf(i))
  \/ ThenHandler
  \/ CatchHandler
  \/ FinallyHandler
  \/ TimerFires
  \/ AwaitResume

Spec == Init /\ [][Next]_vars

\* the event loop runs every queued reaction and every armed timer; nothing
\* makes a probe settle
SpecLive ==
  /\ Init
  /\ [][Next]_vars
  /\ WF_vars(Call)
  /\ WF_vars(ThenHandler)
  /\ WF_vars(CatchHandler)
  /\ WF_vars(FinallyHandler)
  /\ WF_vars(AwaitResume)
  /\ WF_vars(TimerFires)

\* ------------------------------------------------------------ properties

Range(f) == {f[x] : x \in DOMAIN f}

\* position of probe i in a sequence of probes without repetition
Pos(seq, i) == CHOOSE k \in 1..Len(seq) : seq[k] = i

HasDuplicate(keys) ==
  \E i, j \in 1..Len(keys) : i # j /\ keys[i] = keys[j]

Quiescent == microtasks = <<>>

EveryProbeSettled == \A i \in 1..N : pstate[i] # "pending"

\* C1: the results sequence lists the values of the successful probes in the
\* order their successes were recorded (the first recorded success first),
\* whatever the order of the probes in the input array; probes fulfilled while
\* the race is attached to them are recorded in the order they were fulfilled.
C1_CompletionOrder ==
  pc = "running" =>
    /\ Len(ret.results) = Len(succOrder)
    /\ \A k \in 1..Len(succOrder) : ret.results[k] = pvalue[succOrder[k]]
    /\ \A a, b \in 1..Len(settleOrder) :
         (a < b /\ settleOrder[a] \in Range(succOrder) /\ settleOrder[b] \in Range(succOrder))
           => Pos(succOrder, settleOrder[a]) < Pos(succOrder, settleOrder[b])

C1_Witness ==
  /\ pc = "running"
  /\ Len(ret.results) >= 2
  /\ succOrder[1] > succOrder[2]
  /\ ret.results[1] = ValueOf(succOrder[1])
  /\ ret.results[2] = ValueOf(succOrder[2])

\* C2: with N >= 1 probes and unique keys the call is never resolved before
\* the grace timer has fired or every probe has settled, and once one of the
\* two has happened and the pending reactions have run, the call is resolved.
C2_ResolvesAtEarlier ==
  (pc = "running" /\ N >= 1) =>
    /\ inner = "fulfilled" => (firedCount > 0 \/ EveryProbeSettled)
    /\ outer = "fulfilled" => inner = "fulfilled"
    /\ outer # "rejected"
    /\ (Quiescent /\ (firedCount > 0 \/ EveryProbeSettled)) => outer = "fulfilled"

C2_Witness ==
  /\ pc = "running"
  /\ outer = "fulfilled"
  /\ firedCount = 0
  /\ timers = 1
  /\ EveryProbeSettled

\* C3: once the call has resolved, the results of the outcome handed to the
\* caller are those of the probes that succeeded before the race was reported
\* finished: a success before the grace timer fires is included, a success
\* after it is excluded, and the call does not reject.
C3_GracePeriod ==
  (pc = "running" /\ inner = "fulfilled") =>
    /\ outer # "rejected"
    /\ ret.results = atResolve.results

\* C4: after the call has resolved, a later failure of an outstanding probe
\* does not change the outcome handed to the caller: its errors mapping holds
\* no entry for a probe that had not settled when the race was reported
\* finished.
C4_LateFailureInert ==
  (pc = "running" /\ inner = "fulfilled") =>
    \A i \in 1..N :
      ret.errors[errorKeys[i]] # NoError => atResolve.errors[errorKeys[i]] # NoError

\* C5: when no probe succeeds the call does not resolve while a probe is
\* unsettled; when all N >= 1 probes have failed it resolves (never rejects)
\* with empty results and exactly N errors, each probe's error under its key.
C5_AllFail ==
  (pc = "running" /\ N >= 1) =>
    /\ ((\A i \in 1..N : pstate[i] # "fulfilled") /\ ~EveryProbeSettled)
          => (inner = "pending" /\ outer = "pending")
    /\ (\A i \in 1..N : pstate[i] = "rejected") =>
          /\ outer # "rejected"
          /\ inner = "fulfilled" =>
                \A i \in 1..N : ret.errors[errorKeys[i]] = pvalue[i]
          /\ Quiescent =>
                /\ outer = "fulfilled"
                /\ ret.results = <<>>
                /\ MapSize(ret.errors) = N
                /\ \A i \in 1..N : ret.errors[errorKeys[i]] = ErrorOf(i)

C5_Witness ==
  /\ pc = "running"
  /\ N >= 2
  /\ outer = "fulfilled"
  /\ ret.results = <<>>
  /\ MapSize(ret.errors) = N

\* C6: a call with zero probes and zero keys fails at once with a
\* configuration error.
C6_EmptyRejected ==
  (pc # "init" /\ N = 0 /\ Len(errorKeys) = 0) => outer = "rejected"

Count(results, v) == Cardinality({k \in 1..Len(results) : results[k] = v})

\* C8: |results| + |errors| <= N in every state of a race; a probe has at most
\* one entry, its value in results or its error under its own key, never both;
\* once every probe has settled and its reactions have run the sum is N, and
\* when all N succeeded results has length N and errors is empty.
C8_Accounting ==
  pc = "running" =>
    /\ Len(ret.results) + MapSize(ret.errors) <= N
    /\ \A k \in 1..Len(ret.results) :
         \E i \in 1..N : pstate[i] = "fulfilled" /\ ret.results[k] = pvalue[i]
    /\ \A k \in Keys :
         ret.errors[k] # NoError =>
           \E i \in 1..N : /\ errorKeys[i] = k
                            /\ pstate[i] = "rejected"
                            /\ ret.errors[k] = pvalue[i]
    /\ \A i \in 1..N :
         /\ Count(ret.results, ValueOf(i)) <= 1
         /\ ~(Count(ret.results, ValueOf(i)) = 1 /\ ret.errors[errorKeys[i]] # NoError)
    /\ (EveryProbeSettled /\ Quiescent) =>
         Len(ret.results) + MapSize(ret.errors) = N
    /\ ((\A i \in 1..N : pstate[i] = "fulfilled") /\ Quiescent) =>
         (Len(ret.results) = N /\ MapSize(ret.errors) = 0)

C8_Witness ==
  /\ pc = "running"
  /\ N >= 2
  /\ Quiescent
  /\ \E i, j \in 1..N : pstate[i] = "fulfilled" /\ pstate[j] = "rejected"
  /\ Len(ret.results) + MapSize(ret.errors) = N

Max(a, b) == CHOOSE x \in {a, b} : x >= a /\ x >= b

\* C9: the resolved value is max(clientInput, pingResponseMinimum); when
\* clientInput >= pingResponseMinimum it is clientInput and the deviation is 0,
\* otherwise it is pingResponseMinimum.
C9_ResolvedValue ==
  pc = "feesDone" =>
    /\ adjusted.newValue = Max(clientInput, pingResponseMinimum)
    /\ clientInput >= pingResponseMinimum =>
         (adjusted.newValue = clientInput /\ adjusted.deltaPercent = 0)
    /\ clientInput < pingResponseMinimum => adjusted.newValue = pingResponseMinimum

C9_Witness ==
  /\ pc = "feesDone"
  /\ clientInput = 100
  /\ pingResponseMinimum = 100
  /\ adjusted = [newValue |-> 100, deltaPercent |-> 0]

\* d is the real quotient a / c rounded to the nearest integer, a tie going up
IsRoundHalfUp(d, a, c) == 2 * d * c - c <= 2 * a /\ 2 * a < 2 * d * c + c

\* C10: for 0 < clientInput < pingResponseMinimum the deviation is
\* (pingResponseMinimum - clientInput) * 100 / clientInput rounded half up.
C10_Deviation ==
  (pc = "feesDone" /\ 0 < clientInput /\ clientInput < pingResponseMinimum) =>
    /\ adjusted.deltaPercent \in Int
    /\ IsRoundHalfUp(adjusted.deltaPercent,
                     (pingResponseMinimum - clientInput) * 100, clientInput)

C10_Witness ==
  /\ pc = "feesDone"
  /\ clientInput = 8
  /\ pingResponseMinimum = 9
  /\ adjusted.deltaPercent = 13

\* the deviation the negotiation rules give for one parameter: 0 when the
\* client value meets the minimum, else the percentage increase rounded half
\* up (Infinity for a client value of 0)
IsDeviation(d, client, minimum) ==
  IF client >= minimum THEN d = 0
  ELSE IF client = 0 THEN d = Infinity
  ELSE IsRoundHalfUp(d, (minimum - client) * 100, client)

DeviationOf(client, minimum) ==
  IF client >= minimum THEN 0
  ELSE IF client = 0 THEN Infinity
  ELSE ((minimum - client) * 100 + client \div 2) \div client

\* the number a digit string of at most two digits denotes
HexValue(digits) ==
  IF Len(digits) = 1 THEN digits[1] ELSE 16 * digits[1] + digits[2]

WellFormed(seg) ==
  seg \in {Seg(".", FALSE, k) : k \in {"abc", "def", "ghi", "missing", "result",
                                        "ProposeGasPrice", "LastBlock", "message",
                                        "wrongpath"}}
       \cup {Seg("[", TRUE, k) : k \in {"def", "invalid", "SafeGasPrice"}}
       \cup {Seg("[", FALSE, k) : k \in {"0", "1"}}

RECURSIVE NodeAt(_, _, _)
\* the node reached from b after the first k segments of p, Null when a key
\* or an index on the way is missing
NodeAt(b, p, k) ==
  IF k = 0 THEN b
  ELSE LET parent == NodeAt(b, p, k - 1)
       IN IF parent.kind = "obj"
          THEN (IF p[k].key \in DOMAIN parent.v THEN parent.v[p[k].key] ELSE Null)
          ELSE IF parent.kind = "arr"
          THEN (IF p[k].key = "0" /\ Len(parent.v) >= 1 THEN parent.v[1]
                ELSE IF p[k].key = "1" /\ Len(parent.v) >= 2 THEN parent.v[2]
                ELSE Null)
          ELSE Null

Malformed(p) == {k \in 1..Len(p) : ~WellFormed(p[k])}

Expected(b, p) ==
  IF Malformed(p) = {} THEN NodeAt(b, p, Len(p))
  ELSE LET j == CHOOSE k \in Malformed(p) : \A l \in Malformed(p) : k <= l
       IN IF NodeAt(b, p, j - 1) # Null THEN InvalidPath(p) ELSE Null

\* the strings of the oracle answer that are positive numbers, and their values
PositiveLeaves == {Str(<<"1">>), Str(<<"2">>)}
LeafValue(node) == IF node = Str(<<"1">>) THEN 1 ELSE 2

\* the cause the call has to log when the oracle gives no usable number
TransientCause ==
  IF response.kind = "failed" THEN "ECONNREFUSED" ELSE "not a number"

\* the answer is a transient data error: the GET failed, the body is not
\* structured data, the path does not resolve, or the value is not a number
TransientError ==
  \/ response.kind \in {"failed", "text"}
  \/ /\ response.kind = "json"
     /\ Expected(response.data, path).kind # "throw"
     /\ Expected(response.data, path) \notin PositiveLeaves
     /\ Expected(response.data, path) # Str(<<"0">>)

\* C12: with an endpoint set, a failed GET, an unparseable body, an
\* unresolved path or a non-numeric value never raises: the cause is logged at
\* error severity and the call returns exactly what the fallback source gave;
\* with no endpoint the fallback value is returned and no GET is issued; only
\* an extracted number v is returned as v * 10^9.
C12_OracleFallback ==
  /\ oracleUrl = "" => (networkCalls = 0 /\ response = NoResponse)
  /\ networkCalls <= 1
  /\ pc = "gasDone" =>
       /\ oracleUrl = "" =>
            (gasPrice = fallback /\ fallback # NoPrice /\ fallbackCalls = 1)
       /\ (oracleUrl # "" /\ TransientError) =>
            /\ networkCalls = 1
            /\ fallbackCalls = 1
            /\ fallback # NoPrice
            /\ gasPrice = fallback
            /\ errorlog = <<[severity |-> "error", cause |-> TransientCause]>>
       /\ (oracleUrl # "" /\ response.kind = "json"
             /\ Expected(response.data, path) \in PositiveLeaves) =>
            /\ gasPrice = [kind |-> "value",
                            n |-> LeafValue(Expected(response.data, path)) * 1000000000]
            /\ fallbackCalls = 0
            /\ errorlog = <<>>
       /\ (gasPrice.kind = "value" /\ fallbackCalls = 0) =>
            /\ response.kind = "json"
            /\ Expected(response.data, path) \in PositiveLeaves \cup {Str(<<"0">>)}
       /\ gasPrice.kind = "raised" =>
            \/ fallback = gasPrice
            \/ response.kind = "json" /\ Expected(response.data, path).kind = "throw"

C12_Witness ==
  /\ pc = "gasDone"
  /\ oracleUrl # ""
  /\ response.kind = "json"
  /\ path = <<Seg(".", FALSE, "result"), Seg(".", FALSE, "wrongpath")>>
  /\ errorlog = <<[severity |-> "error", cause |-> "not a number"]>>
  /\ gasPrice = [kind |-> "value", n |-> 7]

\* C14: the grace timer is armed at most once, by the step that records the
\* first success and never before a success; no later step arms it again; the
\* promise is resolved once: after resolve(ret) a timer firing or a finally
\* handler seeing all probes settled changes neither the promise nor ret.
C14_TimerArmedOnce ==
  /\ [](pc = "running" =>
         /\ armCount <= 1
         /\ timers + firedCount = armCount
         /\ armCount = 1 <=> Len(ret.results) >= 1
         /\ outer = "fulfilled" => (inner = "fulfilled" /\ AwaitJob \notin Range(microtasks))
         /\ Cardinality({k \in 1..Len(microtasks) : microtasks[k] = AwaitJob}) <= 1)
  /\ [][/\ armCount' # armCount =>
            (armCount = 0 /\ ret.results = <<>> /\ Len(ret'.results) = 1 /\ timers' = 1)
        /\ timers' > timers => armCount' # armCount
        /\ inner = "fulfilled" =>
            /\ inner' = "fulfilled"
            /\ atResolve' = atResolve
            /\ outer' \in {outer, "fulfilled"}
            /\ firedCount' # firedCount => (ret' = ret /\ microtasks' = microtasks)
            /\ Len(microtasks') <= Len(microtasks) + 1
            /\ (AwaitJob \in Range(microtasks')) => (AwaitJob \in Range(microtasks))
        /\ outer = "fulfilled" => outer' = "fulfilled"]_vars

C14_Witness ==
  /\ pc = "running"
  /\ N >= 2
  /\ armCount = 1
  /\ firedCount = 1
  /\ Len(ret.results) >= 2
  /\ MapSize(ret.errors) >= 1
  /\ EveryProbeSettled
  /\ Quiescent
  /\ AllSettled(ret, N)
  /\ outer = "fulfilled"

\* C15: when the event loop runs every reaction and every armed timer, a race
\* with a fulfilled probe is eventually resolved even if other probes never
\* settle, a race of N >= 1 probes that have all settled is eventually
\* resolved, and a race is never resolved while no probe has succeeded and
\* some probe has not settled.
C15_Liveness ==
  /\ (pc = "running" /\ \E i \in 1..N : pstate[i] = "fulfilled") ~> (outer = "fulfilled")
  /\ (pc = "running" /\ N >= 1 /\ EveryProbeSettled) ~> (outer = "fulfilled")
  /\ []((pc = "running" /\ (\A i \in 1..N : pstate[i] # "fulfilled") /\ ~EveryProbeSettled)
          => (inner = "pending" /\ outer = "pending"))

C15_Witness ==
  /\ pc = "running"
  /\ outer = "fulfilled"
  /\ firedCount = 1
  /\ \E i \in 1..N : pstate[i] = "pending"
  /\ Cardinality({i \in 1..N : pstate[i] = "fulfilled"}) = 1

====
